---- MODULE Spec2Model ----
(***************************************************************************)
(* Model of scripts/gen_lvgl_binding.py: the binding generator (type       *)
(* resolution, classification, wrapper assembly) and the C runtime it      *)
(* emits (the event callback registry of HEADER_CODE and the generated     *)
(* js_<name> wrappers, executed statement by statement).                   *)
(***************************************************************************)
EXTENDS Integers, Sequences, FiniteSets, TLC

\* ------------------------------------------------------------------ bounds
\* handles (jerry_value_copy results) the script may acquire in Spec
MaxHandles == 3
\* handles the script may acquire in SpecCap (one key, filled past capacity)
MaxCapHandles == 9
\* arguments a call may pass beyond the declared parameters
MaxExtraArgs == 1
\* entries of the typedefs table of an API description
MaxTypedefs == 2
\* entries of the macros table of an API description
MaxMacros == 2
\* high bits and low bits of the native addresses that are varied
MaxPatternBits == 3

\* ------------------------------------------------------- program constants
MAX_CALLBACKS_PER_KEY == 8
LV_EVENT_ALL == 0
\* significand bits of the C type double the address is cast to
DoubleMantissa == 53

\* native object addresses and event kinds the script uses
Objs == {1, 2}
EventKinds == {1}
Events == {LV_EVENT_ALL} \cup EventKinds
CapObjs == {1}
CapEvents == {1}

VARIABLES
    callback_table,  \* key <<obj, event>> -> callback_map_t (callbacks[], callback_count)
    subs,            \* key -> number of lv_obj_add_event_cb(obj, lv_event_handler, event)
    nextHandle,      \* next value jerry_value_copy hands out
    released,        \* acquired handle -> number of jerry_value_free calls on it
    pc,              \* position of lv_event_handler: idle, loop, callback, done
    frame,           \* locals of the running lv_event_handler
    log,             \* jerry_call invocations of the running lv_event_handler
    mutated,         \* a callback of the running dispatch changed the table
    threw,           \* a callback of the running dispatch returned an error value
    uaf,             \* the running lv_event_handler read an entry after free(entry)
    last,            \* the latest entry point called, its object and what it returned
    wfunc,           \* the function definition a wrapper is generated for
    jsargs,          \* args[] of the call of the wrapper (argc is its length)
    code,            \* the statements of the generated wrapper
    wpc,             \* the next statement of the wrapper (0: not generated)
    cargs,           \* the native values of the parameters converted so far
    bufs,            \* the malloc'ed string buffers not yet freed
    called,          \* the native function was called and returned
    wres,            \* what the wrapper returned to the script runtime
    adata,           \* the enums and typedefs of the API description in use
    aname,           \* the type name given to get_typedef_base_type
    abase,           \* what get_typedef_base_type returned
    apc,             \* "ask" before the call, "done" after it
    gdata,           \* data: the API description main loaded
    EXPORT_FUNCTIONS,    \* the names load_export_functions returned
    BLACKLIST_FUNCTIONS, \* the names load_blacklist_functions returned
    unvisited,       \* names of EXPORT_FUNCTIONS the first loop has yet to visit
    exported_funcs,  \* exported_funcs of main
    binding_code,    \* the wrappers appended to binding_code, in order
    func_list,       \* the entries of lvgl_binding_funcs and its count
    gpc,             \* position of main
    ptr_width,       \* bits of uintptr_t in the build of the generated code
    address,         \* the native address a function returns, as bits
    ret_kind,        \* which generate_*_return text wraps it
    js_obj,          \* the scripted object the wrapper returned
    unwrapped,       \* the address the argument conversion recovered, as bits
    ppc              \* "native", "script" (wrapped), "done" (unwrapped again)

rvars == <<callback_table, subs, nextHandle, released, pc, frame, log, mutated,
           threw, uaf, last>>

wvars == <<wfunc, jsargs, code, wpc, cargs, bufs, called, wres>>

avars == <<adata, aname, abase, apc>>

gvars == <<gdata, EXPORT_FUNCTIONS, BLACKLIST_FUNCTIONS, unvisited, exported_funcs,
           binding_code, func_list, gpc>>

pvars == <<ptr_width, address, ret_kind, js_obj, unwrapped, ppc>>

vars == <<rvars, wvars, avars, gvars, pvars>>

\* -------------------------------------------------------- callback registry

\* lines 46-51, 120-123: a fresh callback_map_t after malloc and memset
NewEntry ==
    [callbacks |-> [s \in 1..MAX_CALLBACKS_PER_KEY |-> 0], callback_count |-> 0]

NoKey == <<0, 0 - 1>>

NoFrame ==
    [target |-> 0, event |-> 0, entry |-> NoKey, i |-> 0, freed |-> FALSE,
     stale |-> NewEntry, event_obj |-> [type |-> 0, target |-> 0]]

Call(name, obj, value) == [call |-> name, obj |-> obj, ret |-> value]

\* HASH_FIND(hh, callback_table, &key, sizeof(callback_key_t), entry)
HashFind(table, key) == IF key \in DOMAIN table THEN key ELSE NoKey

\* HASH_ADD(hh, callback_table, key, sizeof(callback_key_t), entry)
HashAdd(table, key, entry) == (key :> entry) @@ table

\* HASH_DEL(callback_table, entry)
HashDel(table, key) == [k \in (DOMAIN table) \ {key} |-> table[k]]

LookupWildcardFirst(table, target, event) ==
    LET wild == HashFind(table, <<target, LV_EVENT_ALL>>)
    IN  IF wild # NoKey THEN wild
        ELSE HashFind(table, <<target, event>>)

\* lines 63-71: exact key first, then the LV_EVENT_ALL key of the same target
LookupForEvent(table, target, event) ==
    LET exact == HashFind(table, <<target, event>>)
    IN  IF exact # NoKey THEN exact
        ELSE HashFind(table, <<target, LV_EVENT_ALL>>)

\* lines 74-76: the event object handed to every callback
EventObject(target, event) == [type |-> event, target |-> target]

\* line 82: the callback the loop calls at index i (0-based, as in the C code)
CallbackAt(entry, i) == entry.callbacks[i + 1]

\* line 81: the loop condition
LoopContinues(entry, i) == i < entry.callback_count

IndexAfterCallStopOnError(i, outcome) ==
    IF outcome = "error" THEN MAX_CALLBACKS_PER_KEY ELSE i + 1

\* lines 82-83, 81: the index after a call returned `outcome` (value or error)
IndexAfterCall(i, outcome) == i + 1

HasRoomOffByOne(entry) == entry.callback_count <= MAX_CALLBACKS_PER_KEY

\* line 128: room for one more callback
HasRoom(entry) == entry.callback_count < MAX_CALLBACKS_PER_KEY

AppendCallbackPreIncrement(entry, js_func) ==
    [callbacks |-> [entry.callbacks EXCEPT ![entry.callback_count + 2] = js_func],
     callback_count |-> entry.callback_count + 1]

\* line 129: entry->callbacks[entry->callback_count++] = js_func
AppendCallback(entry, js_func) ==
    [callbacks |-> [entry.callbacks EXCEPT ![entry.callback_count + 1] = js_func],
     callback_count |-> entry.callback_count + 1]

ReleaseAllButFirst(entry, rel) ==
    [h \in DOMAIN rel |->
        rel[h] + Cardinality({s \in 2..entry.callback_count : entry.callbacks[s] = h})]

\* lines 167-169, 186-188: jerry_value_free on callbacks[0 .. callback_count-1]
ReleaseAll(entry, rel) ==
    [h \in DOMAIN rel |->
        rel[h] + Cardinality({s \in 1..entry.callback_count : entry.callbacks[s] = h})]

\* lines 119-126: lv_obj_add_event_cb is called when the entry is created
SubsAfterRegister(s, key, created) ==
    IF created THEN [s EXCEPT ![key] = @ + 1] ELSE s

\* free(entry) at lines 171, 190 while lv_event_handler still holds the pointer
FrameAfterFree(f, table, keys) ==
    IF pc = "callback" /\ f.entry \in keys /\ ~f.freed
    THEN [f EXCEPT !.freed = TRUE, !.stale = table[f.entry]]
    ELSE f

\* lines 96-137, arguments that pass the checks of lines 99-108
Register(o, ev, budget) ==
    /\ pc \in {"idle", "callback"}
    /\ nextHandle <= budget
    /\ LET js_func == nextHandle
           key == <<o, ev>>
           created == HashFind(callback_table, key) = NoKey
           t1 == IF created THEN HashAdd(callback_table, key, NewEntry)
                 ELSE callback_table
           entry == t1[key]
           rel1 == (js_func :> 0) @@ released
       IN  /\ nextHandle' = nextHandle + 1
           /\ subs' = SubsAfterRegister(subs, key, created)
           /\ IF HasRoom(entry)
              THEN /\ callback_table' = [t1 EXCEPT ![key] = AppendCallback(entry, js_func)]
                   /\ released' = rel1
                   /\ last' = Call("register", o, "undefined")
                   /\ mutated' = (mutated \/ pc = "callback")
              ELSE /\ callback_table' = t1
                   /\ released' = [rel1 EXCEPT ![js_func] = @ + 1]
                   /\ last' = Call("register", o, "Too many callbacks")
                   /\ mutated' = mutated
    /\ UNCHANGED <<pc, frame, log, threw, uaf>>
    /\ UNCHANGED <<wvars, avars, gvars, pvars>>

\* lines 99-108: the argument checks fail, nothing is acquired
RegisterRejected(msg) ==
    /\ pc \in {"idle", "callback"}
    /\ last' = Call("register", 0, msg)
    /\ UNCHANGED <<callback_table, subs, nextHandle, released, pc, frame, log,
                   mutated, threw, uaf>>
    /\ UNCHANGED <<wvars, avars, gvars, pvars>>

\* lines 145-175, arguments that pass the checks of lines 148-156
Unregister(o, ev) ==
    /\ pc \in {"idle", "callback"}
    /\ LET key == <<o, ev>>
           entry == HashFind(callback_table, key)
       IN  IF entry # NoKey
           THEN /\ released' = ReleaseAll(callback_table[key], released)
                /\ callback_table' = HashDel(callback_table, key)
                /\ frame' = FrameAfterFree(frame, callback_table, {key})
                /\ mutated' = (mutated \/ pc = "callback")
           ELSE UNCHANGED <<released, callback_table, frame, mutated>>
    /\ last' = Call("unregister", o, "undefined")
    /\ UNCHANGED <<subs, nextHandle, pc, log, threw, uaf>>
    /\ UNCHANGED <<wvars, avars, gvars, pvars>>

\* lines 148-156: the argument checks fail
UnregisterRejected(msg) ==
    /\ pc \in {"idle", "callback"}
    /\ last' = Call("unregister", 0, msg)
    /\ UNCHANGED <<callback_table, subs, nextHandle, released, pc, frame, log,
                   mutated, threw, uaf>>
    /\ UNCHANGED <<wvars, avars, gvars, pvars>>

KeysOfObjectExactOnly(table, obj) ==
    {k \in DOMAIN table : k[1] = obj /\ k[2] # LV_EVENT_ALL}

\* lines 184-192: the keys HASH_ITER deletes for target obj
KeysOfObject(table, obj) == {k \in DOMAIN table : k[1] = obj}

\* lines 186-188 over every deleted entry
RECURSIVE ReleaseEntries(_, _, _)
ReleaseEntries(table, keys, rel) ==
    IF keys = {} THEN rel
    ELSE LET k == CHOOSE x \in keys : TRUE
         IN  ReleaseEntries(table, keys \ {k}, ReleaseAll(table[k], rel))

\* lines 181-193: lv_obj_deleted_cb with target obj
ObjectDestroyed(obj) ==
    /\ pc \in {"idle", "callback"}
    /\ LET keys == KeysOfObject(callback_table, obj)
       IN  /\ released' = ReleaseEntries(callback_table, keys, released)
           /\ callback_table' = [k \in (DOMAIN callback_table) \ keys |-> callback_table[k]]
           /\ frame' = FrameAfterFree(frame, callback_table, keys)
           /\ mutated' = (mutated \/ (pc = "callback" /\ keys # {}))
    /\ last' = Call("destroyed", obj, "none")
    /\ UNCHANGED <<subs, nextHandle, pc, log, threw, uaf>>
    /\ UNCHANGED <<wvars, avars, gvars, pvars>>

\* lines 59-79: lv_event_handler is entered for (target, event)
DispatchBegin(target, event) ==
    /\ pc = "idle"
    /\ LET entry == LookupForEvent(callback_table, target, event)
       IN  IF entry = NoKey
           THEN UNCHANGED <<pc, frame, log, mutated, threw>>
           ELSE /\ pc' = "loop"
                /\ frame' = [target |-> target, event |-> event, entry |-> entry,
                             i |-> 0, freed |-> FALSE, stale |-> NewEntry,
                             event_obj |-> EventObject(target, event)]
                /\ log' = <<>>
                /\ mutated' = FALSE
                /\ threw' = FALSE
    /\ last' = Call("dispatch", target, "none")
    /\ UNCHANGED <<callback_table, subs, nextHandle, released, uaf>>
    /\ UNCHANGED <<wvars, avars, gvars, pvars>>

\* lines 81-82 on a live entry: test the count, call callbacks[i]
DispatchLoop ==
    /\ pc = "loop"
    /\ ~frame.freed
    /\ LET entry == callback_table[frame.entry]
       IN  IF LoopContinues(entry, frame.i)
           THEN /\ log' = Append(log, [h |-> CallbackAt(entry, frame.i),
                                       arg |-> frame.event_obj,
                                       live |-> released[CallbackAt(entry, frame.i)] = 0])
                /\ pc' = "callback"
           ELSE /\ pc' = "done"
                /\ log' = log
    /\ UNCHANGED <<callback_table, subs, nextHandle, released, frame, mutated,
                   threw, uaf, last>>
    /\ UNCHANGED <<wvars, avars, gvars, pvars>>

\* lines 81-82 on a freed entry: the read is undefined behaviour; the memory
\* may still hold the old entry's bytes, or bytes that end the loop
DispatchLoopFreed ==
    /\ pc = "loop"
    /\ frame.freed
    /\ uaf' = TRUE
    /\ \/ /\ pc' = "done"
          /\ log' = log
       \/ /\ LoopContinues(frame.stale, frame.i)
          /\ log' = Append(log, [h |-> CallbackAt(frame.stale, frame.i),
                                 arg |-> frame.event_obj,
                                 live |-> released[CallbackAt(frame.stale, frame.i)] = 0])
          /\ pc' = "callback"
    /\ UNCHANGED <<callback_table, subs, nextHandle, released, frame, mutated,
                   threw, last>>
    /\ UNCHANGED <<wvars, avars, gvars, pvars>>

\* lines 82-83: jerry_call returns (a value or an error value), ret is freed
CallbackReturn(outcome) ==
    /\ pc = "callback"
    /\ pc' = "loop"
    /\ frame' = [frame EXCEPT !.i = IndexAfterCall(frame.i, outcome)]
    /\ threw' = (threw \/ outcome = "error")
    /\ UNCHANGED <<callback_table, subs, nextHandle, released, log, mutated, uaf,
                   last>>
    /\ UNCHANGED <<wvars, avars, gvars, pvars>>

\* lines 86-87: the event object is freed and the handler returns
DispatchEnd ==
    /\ pc = "done"
    /\ pc' = "idle"
    /\ frame' = NoFrame
    /\ log' = <<>>
    /\ mutated' = FALSE
    /\ threw' = FALSE
    /\ uaf' = FALSE
    /\ UNCHANGED <<callback_table, subs, nextHandle, released, last>>
    /\ UNCHANGED <<wvars, avars, gvars, pvars>>

RegistryInit ==
    /\ callback_table = <<>>
    /\ subs = [k \in Objs \X Events |-> 0]
    /\ nextHandle = 1
    /\ released = <<>>
    /\ pc = "idle"
    /\ frame = NoFrame
    /\ log = <<>>
    /\ mutated = FALSE
    /\ threw = FALSE
    /\ uaf = FALSE
    /\ last = Call("none", 0, "none")

RegistryNext(O, E, budget) ==
    \/ \E o \in O, ev \in E : Register(o, ev, budget)
    \/ \E msg \in {"Invalid arguments", "Invalid __ptr"} : RegisterRejected(msg)
    \/ \E o \in O, ev \in E : Unregister(o, ev)
    \/ \E msg \in {"Invalid arguments", "Invalid __ptr"} : UnregisterRejected(msg)
    \/ \E o \in O : ObjectDestroyed(o)
    \/ \E o \in O, ev \in E \ {LV_EVENT_ALL} : DispatchBegin(o, ev)
    \/ DispatchLoop
    \/ DispatchLoopFreed
    \/ \E outcome \in {"value", "error"} : CallbackReturn(outcome)
    \/ DispatchEnd

\* ------------------------------------------------ generator: Python strings
\* a Python str is the sequence of its characters

s_void == <<"v", "o", "i", "d">>
s_star == <<"*">>
s_space == <<" ">>
s_const == <<"c", "o", "n", "s", "t">>
s_void_ptr == <<"v", "o", "i", "d", "*">>
s_lv_obj_t_ptr == <<"l", "v", "_", "o", "b", "j", "_", "t", "*">>
s_lv_prefix == <<"l", "v", "_">>
s_obj == <<"o", "b", "j">>
s_lv_color_t == <<"l", "v", "_", "c", "o", "l", "o", "r", "_", "t">>
s_bool == <<"b", "o", "o", "l">>
s_int == <<"i", "n", "t">>
s_uintptr_t == <<"u", "i", "n", "t", "p", "t", "r", "_", "t">>
s_char == <<"c", "h", "a", "r">>
s_lv_obj_t == <<"l", "v", "_", "o", "b", "j", "_", "t">>
s_lv_style_t == <<"l", "v", "_", "s", "t", "y", "l", "e", "_", "t">>
s_int32_t == <<"i", "n", "t", "3", "2", "_", "t">>
s_uint8_t == <<"u", "i", "n", "t", "8", "_", "t">>
s_float == <<"f", "l", "o", "a", "t">>
s_size_t == <<"s", "i", "z", "e", "_", "t">>
s_lv_coord_t == <<"l", "v", "_", "c", "o", "o", "r", "d", "_", "t">>
s_lv_opa_t == <<"l", "v", "_", "o", "p", "a", "_", "t">>
s_lv_align_t == <<"l", "v", "_", "a", "l", "i", "g", "n", "_", "t">>
s_lv_point_t == <<"l", "v", "_", "p", "o", "i", "n", "t", "_", "t">>
s_lv_area_t == <<"l", "v", "_", "a", "r", "e", "a", "_", "t">>
s_lv_flag_t == <<"l", "v", "_", "f", "l", "a", "g", "_", "t">>
s_my_obj == <<"m", "y", "_", "o", "b", "j">>
s_FILE == <<"F", "I", "L", "E">>

string_pointer_forms ==
    {<<"c", "h", "a", "r", "*">>,
     <<"c", "o", "n", "s", "t", "c", "h", "a", "r", "*">>,
     <<"c", "o", "n", "s", "t", " ", "c", "h", "a", "r", "*">>,
     <<"c", "h", "a", "r", " ", "c", "o", "n", "s", "t", "*">>}

number_types ==
    {<<"i", "n", "t">>,
     <<"f", "l", "o", "a", "t">>,
     <<"d", "o", "u", "b", "l", "e">>,
     <<"u", "i", "n", "t", "8", "_", "t">>,
     <<"u", "i", "n", "t", "1", "6", "_", "t">>,
     <<"u", "i", "n", "t", "3", "2", "_", "t">>,
     <<"i", "n", "t", "8", "_", "t">>,
     <<"i", "n", "t", "1", "6", "_", "t">>,
     <<"i", "n", "t", "3", "2", "_", "t">>,
     <<"s", "i", "z", "e", "_", "t">>,
     <<"b", "o", "o", "l">>,
     <<"s", "h", "o", "r", "t">>,
     <<"l", "o", "n", "g">>,
     <<"u", "n", "s", "i", "g", "n", "e", "d">>,
     <<"s", "i", "g", "n", "e", "d">>,
     <<"u", "i", "n", "t", "p", "t", "r", "_", "t">>}

\* the repr of Python's None, where a str or None is returned
None == <<"<None>">>

\* str.replace(' ', '')
StrStrip(s) == SelectSeq(s, LAMBDA c : c # " ")

\* sub in s
StrContains(s, sub) ==
    \E i \in 0..(Len(s) - Len(sub)) : SubSeq(s, i + 1, i + Len(sub)) = sub

\* s.endswith(suffix)
StrEndsWith(s, suffix) ==
    /\ Len(s) >= Len(suffix)
    /\ SubSeq(s, Len(s) - Len(suffix) + 1, Len(s)) = suffix

\* ' '.join(parts)
RECURSIVE StrJoin(_)
StrJoin(parts) ==
    IF parts = <<>> THEN <<>>
    ELSE IF Len(parts) = 1 THEN parts[1]
    ELSE parts[1] \o s_space \o StrJoin(Tail(parts))

\* ------------------------------------------- generator: type descriptors
\* nodes of lvgl.json: a missing descriptor, a named type, a pointer, a
\* return-type wrapper
NoType == [json_type |-> "none"]
Named(json_type, name, quals) ==
    [json_type |-> json_type, name |-> name, quals |-> quals]
Pointer(quals, type) == [json_type |-> "pointer", quals |-> quals, type |-> type]
RetType(type) == [json_type |-> "ret_type", type |-> type]

\* dict.get(key) on a type-info dict: a missing key reads as None (falsy)
InfoGet(info, key) == IF key \in DOMAIN info THEN info[key] ELSE FALSE

\* type_info.get('type_name', '')
InfoTypeName(info) == IF "type_name" \in DOMAIN info THEN info.type_name ELSE <<>>

\* lines 260-272: the info dict of a named type
NamedInfo(type_info) ==
    IF type_info.json_type = "primitive_type"
    THEN [type_name |-> type_info.name, is_primitive |-> TRUE]
    ELSE IF type_info.json_type = "stdlib_type"
    THEN [type_name |-> type_info.name, is_stdlib |-> TRUE]
    ELSE [type_name |-> type_info.name]

\* lines 245-274
RECURSIVE parse_type(_)
parse_type(type_info) ==
    IF type_info.json_type = "none"
    THEN [str |-> s_void, info |-> [is_void |-> TRUE]]
    ELSE IF type_info.json_type = "ret_type"
    THEN parse_type(type_info.type)
    ELSE IF type_info.json_type = "pointer"
    THEN LET base == parse_type(type_info.type)
             quals == StrJoin(type_info.quals)
             info == [is_pointer |-> TRUE, base_type |-> base.info]
         IN  IF quals # <<>>
             THEN [str |-> quals \o s_space \o base.str \o s_star, info |-> info]
             ELSE [str |-> base.str \o s_star, info |-> info]
    ELSE IF "name" \in DOMAIN type_info
    THEN LET quals == StrJoin(type_info.quals)
         IN  IF quals # <<>>
             THEN [str |-> quals \o s_space \o type_info.name,
                   info |-> NamedInfo(type_info)]
             ELSE [str |-> type_info.name, info |-> NamedInfo(type_info)]
    ELSE [str |-> s_void, info |-> [is_void |-> TRUE]]

\* lines 276-278
is_void_type(type_str) ==
    StrContains(type_str, s_void) /\ ~StrContains(type_str, s_star)

\* lines 280-282
is_lv_color_t(type_str) == StrContains(type_str, s_lv_color_t)

\* lines 284-286
is_void_pointer(type_str) == StrContains(StrStrip(type_str), s_void_ptr)

\* lines 288-290
is_lv_obj_pointer(type_str) == StrStrip(type_str) = s_lv_obj_t_ptr

\* lines 292-294
is_object_pointer(type_str) ==
    /\ StrEndsWith(type_str, s_star)
    /\ (StrContains(type_str, s_lv_prefix) \/ StrContains(type_str, s_obj))

\* lines 296-299
is_string_pointer(type_str) == StrStrip(type_str) \in string_pointer_forms

\* lines 301-306
is_number_type(type_str) ==
    \E num_type \in number_types : StrContains(type_str, num_type)

\* lines 308-310
is_lvgl_value_type(type_str) ==
    StrContains(type_str, s_lv_prefix) /\ ~StrContains(type_str, s_star)

\* lines 312-317
is_enum_type(type_name, typedefs_data) ==
    \E n \in 1..Len(typedefs_data.enums) : typedefs_data.enums[n].name = type_name

\* lines 326-331: a typedef entry of the wanted name that reduces to a basic type
TypedefIsBasic(typedef, typedef_name) ==
    /\ typedef.name = typedef_name
    /\ LET info == parse_type(typedef.type).info
       IN  \/ (InfoGet(info, "is_pointer") /\ InfoGet(info.base_type, "is_void"))
           \/ InfoGet(info, "is_primitive")
           \/ InfoGet(info, "is_stdlib")

\* lines 319-334
is_typedef_convertible_to_basic(typedef_name, typedefs_data) ==
    \/ is_enum_type(typedef_name, typedefs_data)
    \/ \E n \in 1..Len(typedefs_data.typedefs) :
          TypedefIsBasic(typedefs_data.typedefs[n], typedef_name)

\* lines 341-351: the loop over typedefs from position n on
RECURSIVE TypedefScan(_, _, _)
TypedefScan(typedef_name, typedefs, n) ==
    IF n > Len(typedefs) THEN None
    ELSE LET typedef == typedefs[n]
             parsed == parse_type(typedef.type)
         IN  IF typedef.name # typedef_name
             THEN TypedefScan(typedef_name, typedefs, n + 1)
             ELSE IF InfoGet(parsed.info, "is_pointer")
                     /\ InfoGet(parsed.info.base_type, "is_void")
             THEN s_uintptr_t
             ELSE IF InfoGet(parsed.info, "is_primitive")
                     \/ InfoGet(parsed.info, "is_stdlib")
             THEN parsed.str
             ELSE TypedefScan(typedef_name, typedefs, n + 1)

\* lines 336-351
get_typedef_base_type(typedef_name, typedefs_data) ==
    IF is_enum_type(typedef_name, typedefs_data) THEN s_int
    ELSE TypedefScan(typedef_name, typedefs_data.typedefs, 1)

\* Python truthiness of a str-or-None
Truthy(s) == s # None /\ s # <<>>

\* ------------------------------------------ generator: emitted statements
\* the C text a generate_* function returns, named by that function
Stmt(op, gen, index, name, ctype) ==
    [op |-> op, gen |-> gen, index |-> index, name |-> name, ctype |-> ctype]

\* lines 511-522: the typedef branch and the generic-pointer default
ArgParsingByTypedef(index, name, type_str, type_info, typedefs_data) ==
    LET type_name == InfoTypeName(type_info)
        base_type == get_typedef_base_type(type_name, typedefs_data)
    IN  IF type_name # <<>> /\ Truthy(base_type) /\ base_type = s_bool
        THEN Stmt("parse", "bool", index, name, <<>>)
        ELSE IF type_name # <<>> /\ Truthy(base_type) /\ is_number_type(base_type)
        THEN Stmt("parse", "number", index, name, base_type)
        ELSE Stmt("parse", "generic_pointer", index, name, type_str)

\* lines 472-522
generate_arg_parsing(index, name, arg_type, type_info, typedefs_data) ==
    LET type_str == StrStrip(arg_type)
    IN  IF is_lv_obj_pointer(type_str)
        THEN Stmt("parse", "object", index, name, <<>>)
        ELSE IF is_void_type(type_str)
        THEN Stmt("parse", "void_skip", index, name, <<>>)
        ELSE IF is_void_pointer(type_str)
        THEN Stmt("parse", "void_pointer", index, name, <<>>)
        ELSE IF is_object_pointer(type_str)
        THEN Stmt("parse", "object", index, name, <<>>)
        ELSE IF is_string_pointer(type_str)
        THEN Stmt("parse", "string", index, name, <<>>)
        ELSE IF is_lv_color_t(type_str)
        THEN Stmt("parse", "color", index, name, <<>>)
        ELSE IF \/ type_str = s_bool
                \/ /\ is_typedef_convertible_to_basic(InfoTypeName(type_info),
                                                      typedefs_data)
                   /\ get_typedef_base_type(InfoTypeName(type_info),
                                            typedefs_data) = s_bool
        THEN Stmt("parse", "bool_or_number", index, name, <<>>)
        ELSE IF is_number_type(type_str)
        THEN Stmt("parse", "number", index, name, type_str)
        ELSE ArgParsingByTypedef(index, name, type_str, type_info, typedefs_data)

\* lines 693-707: the return conversion of a typedef or unknown return type
ReturnByTypedef(return_type_info, typedefs_data) ==
    LET type_name == InfoTypeName(return_type_info)
        base_type == get_typedef_base_type(type_name, typedefs_data)
    IN  IF type_name # <<>> /\ Truthy(base_type) /\ base_type = s_bool
        THEN "bool"
        ELSE IF type_name # <<>> /\ Truthy(base_type) /\ is_number_type(base_type)
        THEN "number"
        ELSE "generic_pointer"

\* lines 682-707: which generate_*_return text follows the native call
ReturnConversion(return_type, return_type_info, typedefs_data) ==
    IF is_void_pointer(return_type) THEN "void_pointer"
    ELSE IF is_lv_obj_pointer(return_type) THEN "object"
    ELSE IF is_string_pointer(return_type) THEN "string"
    ELSE IF is_number_type(return_type) \/ is_lvgl_value_type(return_type)
    THEN "number"
    ELSE IF return_type = s_bool THEN "bool"
    ELSE ReturnByTypedef(return_type_info, typedefs_data)

\* lines 634-636: a single (void) parameter is erased
EffectiveArgs(real_func_def) ==
    IF /\ Len(real_func_def.args) = 1
       /\ is_void_type(parse_type(real_func_def.args[1].type).str)
    THEN <<>>
    ELSE real_func_def.args

ArityCheckOffByOne(args) ==
    IF args # <<>> THEN <<Stmt("arity", "less_than", Len(args) + 1, "", <<>>)>>
    ELSE <<>>

\* lines 649-653: the argument count check, emitted when there are parameters
ArityCheck(args) ==
    IF args # <<>> THEN <<Stmt("arity", "less_than", Len(args), "", <<>>)>>
    ELSE <<>>

\* lines 657-666: one conversion per parameter, in declaration order
ArgStatements(args, typedefs_data) ==
    [n \in 1..Len(args) |->
        generate_arg_parsing(n - 1, args[n].name, parse_type(args[n].type).str,
                             parse_type(args[n].type).info, typedefs_data)]

\* lines 655, 668-669: the names of the string parameters
RECURSIVE StringArgNames(_)
StringArgNames(args) ==
    IF args = <<>> THEN <<>>
    ELSE IF is_string_pointer(parse_type(args[1].type).str)
    THEN <<args[1].name>> \o StringArgNames(Tail(args))
    ELSE StringArgNames(Tail(args))

\* lines 709-711: free(name) for every string parameter
FreeStatements(string_arg_names) ==
    [n \in 1..Len(string_arg_names) |->
        Stmt("free", "", 0, string_arg_names[n], <<>>)]

\* lines 674-716: the native call, the return conversion (each generate_*_return
\* text ends in a return statement), the frees, and the void return
CallAndReturn(return_type, return_type_info, string_arg_names, typedefs_data) ==
    IF return_type = s_void
    THEN <<Stmt("call", "void", 0, "", <<>>)>>
         \o FreeStatements(string_arg_names)
         \o <<Stmt("return", "undefined", 0, "", <<>>)>>
    ELSE <<Stmt("call", "value", 0, "", <<>>),
           Stmt("return",
                ReturnConversion(return_type, return_type_info, typedefs_data),
                0, "", <<>>)>>
         \o FreeStatements(string_arg_names)

\* lines 617-718, for the definition find_real_function_definition returned
generate_binding_function(real_func_def, typedefs_data) ==
    LET ret == IF "type" \in DOMAIN real_func_def
               THEN parse_type(real_func_def.type)
               ELSE [str |-> s_void, info |-> [is_void |-> TRUE]]
        args == EffectiveArgs(real_func_def)
    IN  ArityCheck(args)
        \o ArgStatements(args, typedefs_data)
        \o CallAndReturn(ret.str, ret.info, StringArgNames(args), typedefs_data)

\* --------------------------------------------- generated wrapper: inputs
\* the API description the generator reads (enums and typedefs of lvgl.json)
Data ==
    [enums |-> <<[name |-> s_lv_align_t]>>,
     typedefs |->
        <<[name |-> s_lv_coord_t, type |-> Named("stdlib_type", s_int32_t, <<>>)],
          [name |-> s_lv_opa_t, type |-> Named("stdlib_type", s_uint8_t, <<>>)],
          [name |-> s_lv_flag_t, type |-> Named("stdlib_type", s_bool, <<>>)],
          [name |-> s_lv_area_t, type |-> Named("lvgl_type", s_lv_area_t, <<>>)]>>]

\* parameter types of the functions under generation
ArgTypes ==
    <<Pointer(<<>>, Named("lvgl_type", s_lv_obj_t, <<>>)),
      Named("primitive_type", s_void, <<>>),
      Pointer(<<>>, Named("primitive_type", s_void, <<>>)),
      Pointer(<<>>, Named("lvgl_type", s_lv_style_t, <<>>)),
      Pointer(<<>>, Named("unknown_type", s_my_obj, <<>>)),
      Pointer(<<>>, Named("primitive_type", s_char, <<s_const>>)),
      Pointer(<<>>, Named("primitive_type", s_char, <<>>)),
      Named("lvgl_type", s_lv_color_t, <<>>),
      Named("stdlib_type", s_bool, <<>>),
      Named("lvgl_type", s_lv_flag_t, <<>>),
      Named("primitive_type", s_int, <<>>),
      Named("stdlib_type", s_int32_t, <<>>),
      Named("stdlib_type", s_uint8_t, <<>>),
      Named("primitive_type", s_float, <<>>),
      Named("stdlib_type", s_size_t, <<>>),
      Named("stdlib_type", s_uintptr_t, <<>>),
      Named("lvgl_type", s_lv_coord_t, <<>>),
      Named("lvgl_type", s_lv_opa_t, <<>>),
      Named("lvgl_type", s_lv_align_t, <<>>),
      Named("lvgl_type", s_lv_point_t, <<>>),
      Named("lvgl_type", s_lv_area_t, <<>>),
      Pointer(<<>>, Named("stdlib_type", s_FILE, <<>>))>>

\* return types of the functions under generation
RetTypes ==
    <<Named("primitive_type", s_void, <<>>),
      Named("primitive_type", s_int, <<>>),
      Named("stdlib_type", s_bool, <<>>),
      Pointer(<<>>, Named("primitive_type", s_char, <<s_const>>)),
      Pointer(<<>>, Named("lvgl_type", s_lv_obj_t, <<>>)),
      Pointer(<<>>, Named("primitive_type", s_void, <<>>)),
      Pointer(<<>>, Named("lvgl_type", s_lv_style_t, <<>>))>>

Func(ret, args) == [name |-> "f", type |-> RetType(ret), args |-> args]
Param(name, type) == [name |-> name, type |-> type]

\* functions of two parameters, and one that declares no return type
PairFunctions ==
    <<Func(RetTypes[1], <<Param("a0", ArgTypes[6]), Param("a1", ArgTypes[6])>>),
      Func(RetTypes[2], <<Param("a0", ArgTypes[6]), Param("a1", ArgTypes[6])>>),
      Func(RetTypes[1], <<Param("a0", ArgTypes[1]), Param("a1", ArgTypes[6])>>),
      Func(RetTypes[4], <<Param("a0", ArgTypes[6]), Param("a1", ArgTypes[11])>>),
      Func(RetTypes[1], <<Param("a0", ArgTypes[11]), Param("a1", ArgTypes[4])>>),
      [name |-> "f", args |-> <<Param("a0", ArgTypes[6])>>]>>

NumSingle == Len(RetTypes) * Len(ArgTypes)

\* every return type with every single parameter type, then PairFunctions
Functions ==
    [n \in 1..(NumSingle + Len(PairFunctions)) |->
        IF n <= NumSingle
        THEN Func(RetTypes[((n - 1) \div Len(ArgTypes)) + 1],
                  <<Param("a0", ArgTypes[((n - 1) % Len(ArgTypes)) + 1])>>)
        ELSE PairFunctions[n - NumSingle]]

\* scripted values: t is the jerry type, v the number (or the boolean as 0/1,
\* or the __ptr number of an object), ptr the jerry type of an object's __ptr
JS(t, v, ptr) == [t |-> t, v |-> v, ptr |-> ptr]

JSValues ==
    {JS("undefined", 0, "none"), JS("number", 0, "none"), JS("number", 5, "none"),
     JS("string", 0, "none"), JS("boolean", 1, "none"), JS("boolean", 0, "none"),
     JS("object", 5, "number"), JS("object", 0, "undefined"),
     JS("function", 0, "none")}

\* argument vectors of a call: one fewer, as many, or up to MaxExtraArgs more
\* than the declared parameters
ArgVectors(n) ==
    UNION {[1..len -> JSValues] :
              len \in {k \in (n - 1)..(n + MaxExtraArgs) : k >= 0}}

NoIndex == 0 - 1

Result(kind, msg, index, stmt) ==
    [kind |-> kind, msg |-> msg, index |-> index, stmt |-> stmt]

NoResult == Result("none", "", NoIndex, 0)

\* outcome of one argument conversion
Converted(value) == [ok |-> TRUE, value |-> value, msg |-> "", index |-> NoIndex]
Rejected(msg, index) == [ok |-> FALSE, value |-> 0, msg |-> msg, index |-> index]

\* --------------------------------- generated wrapper: emitted C, executed

ObjectArgConvAcceptsNumber(v, index) ==
    IF v.t = "object" /\ v.ptr = "number" THEN Converted(v.v)
    ELSE IF v.t = "number" THEN Converted(v.v)
    ELSE Rejected("Argument {index} must be an object", index)

\* lines 413-429: the text of generate_object_arg_parsing
ObjectArgConv(v, index) ==
    IF v.t # "object"
    THEN Rejected("Argument {index} must be an object", index)
    ELSE IF v.ptr # "number"
    THEN Rejected("Invalid __ptr property", NoIndex)
    ELSE Converted(v.v)

\* lines 355-378, 384-407: the text of generate_void_pointer_arg_parsing and of
\* generate_generic_pointer_arg_parsing (NULL is 0)
PointerArgConv(v, index, what) ==
    IF v.t = "undefined" THEN Converted(0)
    ELSE IF v.t = "object"
    THEN (IF v.ptr = "number" THEN Converted(v.v) ELSE Converted(0))
    ELSE IF v.t = "number" THEN Converted(v.v)
    ELSE Rejected(what, index)

\* lines 435-446: the text of generate_string_arg_parsing; malloc may fail
StringArgConv(v, index, mem_ok) ==
    IF v.t # "string" THEN Rejected("Argument {index} must be a string", index)
    ELSE IF ~mem_ok THEN Rejected("Out of memory", NoIndex)
    ELSE Converted(0)

\* lines 452-457: the text of generate_number_arg_parsing
NumberArgConv(v, index) ==
    IF v.t # "number" THEN Rejected("Argument {index} must be a number", index)
    ELSE Converted(v.v)

\* lines 463-468: the text of generate_bool_arg_parsing
BoolArgConv(v, index) ==
    IF v.t # "boolean" THEN Rejected("Argument {index} must be a boolean", index)
    ELSE Converted(v.v)

BoolOrNumberArgConvRejectsUndefined(v, index) ==
    IF v.t = "boolean" THEN Converted(v.v)
    ELSE IF v.t = "number" THEN Converted(IF v.v # 0 THEN 1 ELSE 0)
    ELSE Rejected("Argument {index} must be boolean or number for {type_str}", index)

\* lines 493-505: the boolean-or-number text inside generate_arg_parsing
BoolOrNumberArgConv(v, index) ==
    IF v.t = "undefined" THEN Converted(0)
    ELSE IF v.t = "boolean" THEN Converted(v.v)
    ELSE IF v.t = "number" THEN Converted(IF v.v # 0 THEN 1 ELSE 0)
    ELSE Rejected("Argument {index} must be boolean or number for {type_str}", index)

\* one emitted conversion statement applied to args[index]
ArgConv(stmt, v, mem_ok) ==
    IF stmt.gen = "object" THEN ObjectArgConv(v, stmt.index)
    ELSE IF stmt.gen = "void_pointer"
    THEN PointerArgConv(v, stmt.index,
                        "Argument {index} must be object or number for void*")
    ELSE IF stmt.gen = "generic_pointer"
    THEN PointerArgConv(v, stmt.index,
                        "Argument {index} must be object or number for {type_str}")
    ELSE IF stmt.gen = "string" THEN StringArgConv(v, stmt.index, mem_ok)
    ELSE IF stmt.gen = "number" THEN NumberArgConv(v, stmt.index)
    ELSE IF stmt.gen = "bool" THEN BoolArgConv(v, stmt.index)
    ELSE IF stmt.gen = "bool_or_number" THEN BoolOrNumberArgConv(v, stmt.index)
    ELSE Converted(0)

Running == wpc >= 1 /\ wpc <= Len(code) /\ wres.kind = "none"

\* main, lines 883-884: the wrapper of the function is generated
WrapGenerate ==
    /\ wpc = 0
    /\ code' = generate_binding_function(wfunc, Data)
    /\ wpc' = 1
    /\ UNCHANGED <<wfunc, jsargs, cargs, bufs, called, wres>>
    /\ UNCHANGED <<rvars, avars, gvars, pvars>>

\* lines 650-653: if (argc < n) return throw_error("Insufficient arguments")
WrapArity ==
    /\ Running
    /\ code[wpc].op = "arity"
    /\ IF Len(jsargs) < code[wpc].index
       THEN /\ wres' = Result("error", "Insufficient arguments", NoIndex, wpc)
            /\ wpc' = wpc
       ELSE /\ wres' = wres
            /\ wpc' = wpc + 1
    /\ UNCHANGED <<wfunc, jsargs, code, cargs, bufs, called>>
    /\ UNCHANGED <<rvars, avars, gvars, pvars>>

\* lines 665-666: the conversion of one parameter runs; a failed check returns
\* the error at once
WrapParse(mem_ok) ==
    /\ Running
    /\ code[wpc].op = "parse"
    /\ LET stmt == code[wpc]
           r == IF stmt.gen \in {"void_skip", "color"} THEN Converted(0)
                ELSE ArgConv(stmt, jsargs[stmt.index + 1], mem_ok)
       IN  IF r.ok
           THEN /\ cargs' = Append(cargs, r.value)
                /\ bufs' = IF stmt.gen = "string" THEN bufs \cup {stmt.name} ELSE bufs
                /\ wpc' = wpc + 1
                /\ wres' = wres
           ELSE /\ wres' = Result("error", r.msg, r.index, wpc)
                /\ UNCHANGED <<cargs, bufs, wpc>>
    /\ UNCHANGED <<wfunc, jsargs, code, called>>
    /\ UNCHANGED <<rvars, avars, gvars, pvars>>

\* lines 677, 679: the native function is called and returns
WrapCall ==
    /\ Running
    /\ code[wpc].op = "call"
    /\ called' = TRUE
    /\ wpc' = wpc + 1
    /\ UNCHANGED <<wfunc, jsargs, code, cargs, bufs, wres>>
    /\ UNCHANGED <<rvars, avars, gvars, pvars>>

\* lines 524-580, 714: a return statement ends the wrapper
WrapReturn ==
    /\ Running
    /\ code[wpc].op = "return"
    /\ wres' = Result("value", code[wpc].gen, NoIndex, wpc)
    /\ UNCHANGED <<wfunc, jsargs, code, wpc, cargs, bufs, called>>
    /\ UNCHANGED <<rvars, avars, gvars, pvars>>

\* line 711: free(name)
WrapFree ==
    /\ Running
    /\ code[wpc].op = "free"
    /\ bufs' = bufs \ {code[wpc].name}
    /\ wpc' = wpc + 1
    /\ UNCHANGED <<wfunc, jsargs, code, cargs, called, wres>>
    /\ UNCHANGED <<rvars, avars, gvars, pvars>>

\* no wrapper under generation
WrapIdle ==
    /\ wfunc = [name |-> "", args |-> <<>>]
    /\ jsargs = <<>>
    /\ code = <<>>
    /\ wpc = 0
    /\ cargs = <<>>
    /\ bufs = {}
    /\ called = FALSE
    /\ wres = NoResult

\* one function of the API description and one call of its wrapper
WrapInit ==
    /\ \E n \in 1..Len(Functions) :
          /\ wfunc = Functions[n]
          /\ jsargs \in ArgVectors(Len(EffectiveArgs(Functions[n])))
    /\ code = <<>>
    /\ wpc = 0
    /\ cargs = <<>>
    /\ bufs = {}
    /\ called = FALSE
    /\ wres = NoResult

WrapNext ==
    \/ WrapGenerate
    \/ WrapArity
    \/ \E mem_ok \in BOOLEAN : WrapParse(mem_ok)
    \/ WrapCall
    \/ WrapReturn
    \/ WrapFree

\* ------------------------------------- alias and enum resolution: inputs
\* names the typedefs tables define
AliasNames == {s_lv_coord_t, s_lv_flag_t, s_lv_opa_t}

\* underlying type descriptors of the typedefs (NoType: the entry has no type;
\* Pointer(<<>>, NoType): a pointer entry without a pointee)
AliasDescriptors ==
    {NoType,
     Named("primitive_type", s_void, <<>>),
     Named("primitive_type", s_int, <<>>),
     Named("stdlib_type", s_bool, <<>>),
     Named("lvgl_type", s_lv_align_t, <<>>),
     Named("lvgl_type", s_lv_area_t, <<>>),
     Pointer(<<>>, NoType),
     Pointer(<<>>, Named("primitive_type", s_void, <<>>)),
     Pointer(<<>>, Named("primitive_type", s_char, <<>>))}

\* typedefs tables: up to MaxTypedefs entries, one per name
TypedefTables ==
    {t \in UNION {[1..n -> [name : AliasNames, type : AliasDescriptors]] :
                     n \in 0..MaxTypedefs} :
        \A i, j \in 1..Len(t) : i # j => t[i].name # t[j].name}

\* enums tables: none, one enumeration, or also one named like a typedef
EnumTables ==
    {<<>>,
     <<[name |-> s_lv_align_t]>>,
     <<[name |-> s_lv_align_t], [name |-> s_lv_coord_t]>>}

\* an API description and the type name of a parameter or return value
AliasInit ==
    /\ adata \in {[enums |-> e, typedefs |-> t] : e \in EnumTables, t \in TypedefTables}
    /\ aname \in AliasNames
    /\ abase = None
    /\ apc = "ask"

\* no resolution under way
AliasIdle ==
    /\ adata = Data
    /\ aname = <<>>
    /\ abase = None
    /\ apc = "idle"

\* lines 514, 696: base_type = get_typedef_base_type(type_name, typedefs_data)
AliasResolve ==
    /\ apc = "ask"
    /\ abase' = get_typedef_base_type(aname, adata)
    /\ apc' = "done"
    /\ UNCHANGED <<adata, aname>>
    /\ UNCHANGED <<rvars, wvars, gvars, pvars>>

\* ------------------------------------------- export resolution and main
\* symbol names of the API description and of the export list
n_m == <<"m">>
n_f == <<"f">>
n_p == <<"p">>
n_x == <<"x">>
n_register_lv_event_handler == <<"register_lv_event_handler">>
n_unregister_lv_event_handler == <<"unregister_lv_event_handler">>

Whitespace == {" ", "\t", "\n"}

\* str.strip()
RECURSIVE StrTrim(_)
StrTrim(s) ==
    IF s = <<>> THEN s
    ELSE IF Head(s) \in Whitespace THEN StrTrim(Tail(s))
    ELSE IF s[Len(s)] \in Whitespace THEN StrTrim(SubSeq(s, 1, Len(s) - 1))
    ELSE s

\* lines 591-593: the name a macro initializer stands for
MacroTarget(initializer) ==
    LET real_func_name == StrTrim(initializer)
    IN  IF StrEndsWith(real_func_name, <<";">>)
        THEN StrTrim(SubSeq(real_func_name, 1, Len(real_func_name) - 1))
        ELSE real_func_name

\* lines 596-598, 601-603, 606-608, 611-613: the first entry of that name
\* (0: no entry)
RECURSIVE FindByName(_, _, _)
FindByName(defs, name, n) ==
    IF n > Len(defs) THEN 0
    ELSE IF defs[n].name = name THEN n
    ELSE FindByName(defs, name, n + 1)

\* what find_real_function_definition hands back: (name, definition),
\* (None, None), or the exception that leaves it
Found(real_func_name, def) == [kind |-> "found", name |-> real_func_name, def |-> def]
NotFound == [kind |-> "none"]
Raised == [kind |-> "raised"]

\* lines 605-615: the name itself among functions, then function pointers
DirectLookup(func_name, data) ==
    LET f == FindByName(data.functions, func_name, 1)
        fp == FindByName(data.function_pointers, func_name, 1)
    IN  IF f # 0 THEN Found(func_name, data.functions[f])
        ELSE IF fp # 0 THEN Found(func_name, data.function_pointers[fp])
        ELSE NotFound

\* lines 588-603: the loop over macros from position n on; None.strip() raises
\* AttributeError
RECURSIVE MacroScan(_, _, _)
MacroScan(func_name, data, n) ==
    IF n > Len(data.macros) THEN DirectLookup(func_name, data)
    ELSE LET macro == data.macros[n]
         IN  IF macro.name = func_name /\ "initializer" \in DOMAIN macro
             THEN IF macro.initializer = None THEN Raised
                  ELSE LET real_func_name == MacroTarget(macro.initializer)
                           f == FindByName(data.functions, real_func_name, 1)
                           fp == FindByName(data.function_pointers, real_func_name, 1)
                       IN  IF f # 0 THEN Found(real_func_name, data.functions[f])
                           ELSE IF fp # 0
                           THEN Found(real_func_name, data.function_pointers[fp])
                           ELSE MacroScan(func_name, data, n + 1)
             ELSE MacroScan(func_name, data, n + 1)

\* lines 582-615
find_real_function_definition(func_name, data) == MacroScan(func_name, data, 1)

\* lines 720-737
generate_native_funcs_list(functions) ==
    [entries |-> <<n_register_lv_event_handler, n_unregister_lv_event_handler>>
                    \o [n \in 1..Len(functions) |-> functions[n].name],
     count |-> Len(functions) + 2]

\* macros entries: the initializer key may be missing, null (None) or a text
MacroEntries ==
    {[name |-> name] : name \in {n_m, n_f}}
    \cup {[name |-> name, initializer |-> text] :
            name \in {n_m, n_f},
            text \in {None, <<"f">>, <<" ", "f", " ", ";", " ">>, <<"p">>, <<"x">>}}

MacroTables == UNION {[1..n -> MacroEntries] : n \in 0..MaxMacros}

\* functions tables and function_pointers tables (one pointer is named like
\* the function)
FunctionTables ==
    {<<>>,
     <<[name |-> n_f, type |-> RetType(RetTypes[2]),
        args |-> <<Param("a0", ArgTypes[11])>>]>>}

PointerTables ==
    {<<>>,
     <<[name |-> n_p, type |-> RetType(RetTypes[1]),
        args |-> <<Param("a0", ArgTypes[3])>>]>>,
     <<[name |-> n_f, type |-> RetType(RetTypes[3]),
        args |-> <<Param("a0", ArgTypes[9])>>],
       [name |-> n_p, type |-> RetType(RetTypes[1]),
        args |-> <<Param("a0", ArgTypes[3])>>]>>}

ExportLists == {{n_m}, {n_f}, {n_p, n_x}, {n_m, n_x}, {n_m, n_f}}

BlackLists == {{}, {n_f}}

\* main has not run
GenIdle ==
    /\ gdata = [enums |-> <<>>, typedefs |-> <<>>, macros |-> <<>>,
                functions |-> <<>>, function_pointers |-> <<>>]
    /\ EXPORT_FUNCTIONS = {}
    /\ BLACKLIST_FUNCTIONS = {}
    /\ unvisited = {}
    /\ exported_funcs = <<>>
    /\ binding_code = <<>>
    /\ func_list = [entries |-> <<>>, count |-> 0]
    /\ gpc = "idle"

\* lines 847-854: the API description and the two lists are loaded
GenInit ==
    /\ gdata \in {[enums |-> Data.enums, typedefs |-> Data.typedefs, macros |-> m,
                   functions |-> f, function_pointers |-> fp] :
                     m \in MacroTables, f \in FunctionTables, fp \in PointerTables}
    /\ EXPORT_FUNCTIONS \in ExportLists
    /\ BLACKLIST_FUNCTIONS \in BlackLists
    /\ unvisited = EXPORT_FUNCTIONS
    /\ exported_funcs = <<>>
    /\ binding_code = <<>>
    /\ func_list = [entries |-> <<>>, count |-> 0]
    /\ gpc = "collect"

\* lines 857-870: one iteration of the loop over the set EXPORT_FUNCTIONS (a
\* set is visited in no fixed order); an exception ends the run without output
GenCollect ==
    /\ gpc = "collect"
    /\ \E func_name \in unvisited :
          LET r == find_real_function_definition(func_name, gdata)
          IN  /\ unvisited' = unvisited \ {func_name}
              /\ IF func_name \in BLACKLIST_FUNCTIONS
                 THEN UNCHANGED <<exported_funcs, gpc>>
                 ELSE IF r.kind = "raised"
                 THEN gpc' = "raised" /\ UNCHANGED exported_funcs
                 ELSE IF r.kind = "found"
                 THEN /\ exported_funcs' =
                            Append(exported_funcs, [r.def EXCEPT !.name = func_name])
                      /\ gpc' = gpc
                 ELSE UNCHANGED <<exported_funcs, gpc>>
    /\ UNCHANGED <<gdata, EXPORT_FUNCTIONS, BLACKLIST_FUNCTIONS, binding_code, func_list>>
    /\ UNCHANGED <<rvars, wvars, avars, pvars>>

\* lines 872-874: nothing to export, main returns without writing the file
GenNoExports ==
    /\ gpc = "collect"
    /\ unvisited = {}
    /\ exported_funcs = <<>>
    /\ gpc' = "no_output"
    /\ UNCHANGED <<gdata, EXPORT_FUNCTIONS, BLACKLIST_FUNCTIONS, unvisited,
                   exported_funcs, binding_code, func_list>>
    /\ UNCHANGED <<rvars, wvars, avars, pvars>>

\* lines 883-885 with 619-626: the wrapper of the next exported function; the
\* definition is looked up again by the exposed name
GenBind ==
    /\ gpc = "collect"
    /\ unvisited = {}
    /\ Len(binding_code) < Len(exported_funcs)
    /\ LET func == exported_funcs[Len(binding_code) + 1]
           r == find_real_function_definition(func.name, gdata)
       IN  binding_code' =
              Append(binding_code,
                     IF r.kind = "found"
                     THEN [name |-> func.name, calls |-> r.name,
                           code |-> generate_binding_function(r.def, gdata)]
                     ELSE [name |-> <<>>, calls |-> <<>>, code |-> <<>>])
    /\ UNCHANGED <<gdata, EXPORT_FUNCTIONS, BLACKLIST_FUNCTIONS, unvisited,
                   exported_funcs, func_list, gpc>>
    /\ UNCHANGED <<rvars, wvars, avars, pvars>>

\* lines 888-912: the function table is generated and the file is written
GenWrite ==
    /\ gpc = "collect"
    /\ unvisited = {}
    /\ exported_funcs # <<>>
    /\ Len(binding_code) = Len(exported_funcs)
    /\ func_list' = generate_native_funcs_list(exported_funcs)
    /\ gpc' = "done"
    /\ UNCHANGED <<gdata, EXPORT_FUNCTIONS, BLACKLIST_FUNCTIONS, unvisited,
                   exported_funcs, binding_code>>
    /\ UNCHANGED <<rvars, wvars, avars, pvars>>

GenNext ==
    \/ GenCollect
    \/ GenNoExports
    \/ GenBind
    \/ GenWrite

\* ------------------------------------------ pointer tags: wrap and unwrap
\* an unsigned integer is the sequence of its bits, most significant first; a
\* double that holds a non-negative whole number is that number's bits
Zeros(n) == [i \in 1..n |-> 0]
Ones(n) == [i \in 1..n |-> 1]

\* the bits without leading zeros
RECURSIVE Significant(_)
Significant(bits) ==
    IF bits = <<>> THEN bits
    ELSE IF Head(bits) = 0 THEN Significant(Tail(bits))
    ELSE bits

\* the value as an unsigned integer of w bits
Pad(bits, w) == Zeros(w - Len(bits)) \o bits

\* bits + 1
RECURSIVE BitsInc(_)
BitsInc(bits) ==
    IF bits = <<>> THEN <<1>>
    ELSE IF bits[Len(bits)] = 0 THEN SubSeq(bits, 1, Len(bits) - 1) \o <<1>>
    ELSE BitsInc(SubSeq(bits, 1, Len(bits) - 1)) \o <<0>>

\* lines 528, 541, 553: (double)(uintptr_t)ret_value. A value of more than
\* DoubleMantissa significant bits is rounded to the nearest double, ties to
\* the even significand
CastToDouble(bits) ==
    LET s == Significant(bits)
        extra == Len(s) - DoubleMantissa
    IN  IF extra <= 0 THEN s
        ELSE LET m == SubSeq(s, 1, DoubleMantissa)
                 rest == SubSeq(s, DoubleMantissa + 1, Len(s))
                 half == <<1>> \o Zeros(extra - 1)
                 up == rest[1] = 1 /\ (rest # half \/ m[DoubleMantissa] = 1)
             IN  (IF up THEN BitsInc(m) ELSE m) \o Zeros(extra)

\* lines 365, 372, 394, 401, 427: (uintptr_t)jerry_value_as_number(...). The
\* conversion of a double that does not fit uintptr_t is undefined behaviour:
\* builds give zero, the largest value, or only the top bit set
CastToUintptr(value, w) ==
    IF Len(Significant(value)) <= w THEN {Pad(Significant(value), w)}
    ELSE {Zeros(w), Ones(w), <<1>> \o Zeros(w - 1)}

\* uintptr_t of a 32-bit and of a 64-bit build
PointerWidths == {32, 64}

\* native addresses: any high bits, any low bits, zeros between; and the
\* largest address
Addresses(w) ==
    {hi \o Zeros(w - 2 * MaxPatternBits) \o lo :
        hi \in [1..MaxPatternBits -> {0, 1}], lo \in [1..MaxPatternBits -> {0, 1}]}
    \cup {Ones(w)}

\* lines 527-534, 540-546, 552-561: the object a pointer return is wrapped in
WrapPointer(kind, ret_value) ==
    [ptr |-> CastToDouble(ret_value),
     class |-> IF kind = "object" THEN "lv_obj" ELSE "",
     type |-> IF kind = "void_pointer" THEN "void*" ELSE ""]

\* no pointer under way
PtrIdle ==
    /\ ptr_width = 32
    /\ address = <<>>
    /\ ret_kind = ""
    /\ js_obj = [ptr |-> <<>>, class |-> "", type |-> ""]
    /\ unwrapped = <<>>
    /\ ppc = "idle"

\* a native function returned an address to its wrapper
PtrInit ==
    /\ ptr_width \in PointerWidths
    /\ address \in Addresses(ptr_width)
    /\ ret_kind \in {"void_pointer", "object", "generic_pointer"}
    /\ js_obj = [ptr |-> <<>>, class |-> "", type |-> ""]
    /\ unwrapped = <<>>
    /\ ppc = "native"

\* lines 524-562: the return conversion wraps the address
PtrWrap ==
    /\ ppc = "native"
    /\ js_obj' = WrapPointer(ret_kind, address)
    /\ ppc' = "script"
    /\ UNCHANGED <<ptr_width, address, ret_kind, unwrapped>>
    /\ UNCHANGED <<rvars, wvars, avars, gvars>>

\* lines 384-407: the script passes the object to a generic-pointer parameter
PtrUnwrap ==
    /\ ppc = "script"
    /\ LET r == PointerArgConv(JS("object", js_obj.ptr, "number"), 0,
                  "Argument {index} must be object or number for {type_str}")
       IN  unwrapped' \in CastToUintptr(r.value, ptr_width)
    /\ ppc' = "done"
    /\ UNCHANGED <<ptr_width, address, ret_kind, js_obj>>
    /\ UNCHANGED <<rvars, wvars, avars, gvars>>

PtrNext ==
    \/ PtrWrap
    \/ PtrUnwrap

Init == RegistryInit /\ WrapIdle /\ AliasIdle /\ GenIdle /\ PtrIdle

Next == RegistryNext(Objs, Events, MaxHandles)

Spec == Init /\ [][Next]_vars

NextCap == RegistryNext(CapObjs, CapEvents, MaxCapHandles)

SpecCap == Init /\ [][NextCap]_vars

\* the registry with two keys of one object: the first registration may go to
\* the wildcard key, the others fill the key of CapEvents past its capacity
NextAcct ==
    \/ \E o \in CapObjs : Register(o, LV_EVENT_ALL, 1)
    \/ \E o \in CapObjs, ev \in CapEvents : Register(o, ev, MaxCapHandles + 1)
    \/ \E msg \in {"Invalid arguments", "Invalid __ptr"} : RegisterRejected(msg)
    \/ \E o \in CapObjs, ev \in Events : Unregister(o, ev)
    \/ \E msg \in {"Invalid arguments", "Invalid __ptr"} : UnregisterRejected(msg)
    \/ \E o \in CapObjs : ObjectDestroyed(o)
    \/ \E o \in CapObjs, ev \in Events \ {LV_EVENT_ALL} : DispatchBegin(o, ev)
    \/ DispatchLoop
    \/ DispatchLoopFreed
    \/ \E outcome \in {"value", "error"} : CallbackReturn(outcome)
    \/ DispatchEnd

SpecAcct == Init /\ [][NextAcct]_vars

InitWrap == RegistryInit /\ WrapInit /\ AliasIdle /\ GenIdle /\ PtrIdle

NextWrap == WrapNext

SpecWrap == InitWrap /\ [][NextWrap]_vars

InitAlias == RegistryInit /\ WrapIdle /\ AliasInit /\ GenIdle /\ PtrIdle

SpecAlias == InitAlias /\ [][AliasResolve]_vars

InitGen == RegistryInit /\ WrapIdle /\ AliasIdle /\ GenInit /\ PtrIdle

SpecGen == InitGen /\ [][GenNext]_vars

InitPtr == RegistryInit /\ WrapIdle /\ AliasIdle /\ GenIdle /\ PtrInit

SpecPtr == InitPtr /\ [][PtrNext]_vars

\* ------------------------------------------------------------------ claims

\* C2: for every (object, event) key, lv_event_handler is armed on the object
\* for that event at most once, also after Unregister and a new Register.
C2_OneSubscriptionPerKey == \A k \in DOMAIN subs : subs[k] <= 1

\* C3: every entry holds at most 8 callbacks, and a Register on a key whose
\* entry holds 8 returns "Too many callbacks" and leaves the table as it was.
C3_CapacityBound ==
    [][ /\ \A k \in DOMAIN callback_table' :
              callback_table'[k].callback_count <= 8
        /\ \A o \in CapObjs, ev \in CapEvents :
              ( /\ Register(o, ev, MaxCapHandles)
                /\ <<o, ev>> \in DOMAIN callback_table
                /\ callback_table[<<o, ev>>].callback_count = 8 )
              => /\ last'.ret = "Too many callbacks"
                 /\ callback_table' = callback_table ]_vars

C3_Witness ==
    /\ last = Call("register", 1, "Too many callbacks")
    /\ <<1, 1>> \in DOMAIN callback_table
    /\ callback_table[<<1, 1>>].callback_count = 8
    /\ callback_table[<<1, 1>>].callbacks[8] # 0

\* C4: a dispatch that found an entry, and during which no callback changed the
\* table, has called every callback of the entry exactly once, in registration
\* order (handles are issued in increasing order), each with the same event
\* object (event kind, object), whether or not a callback returned an error.
C4_DispatchInvokesAllInOrder ==
    (pc = "done" /\ ~mutated) =>
        /\ frame.entry \in DOMAIN callback_table
        /\ Len(log) = callback_table[frame.entry].callback_count
        /\ \A n \in 1..Len(log) :
              /\ log[n].h = callback_table[frame.entry].callbacks[n]
              /\ log[n].arg = [type |-> frame.event, target |-> frame.target]
              /\ log[n].live
        /\ \A m, n \in 1..Len(log) : m < n => log[m].h < log[n].h

C4_Witness ==
    /\ pc = "done"
    /\ ~mutated
    /\ threw
    /\ Len(log) >= 2

\* C5: lv_event_handler selects the entry of the exact (object, event) key when
\* it exists, else the entry of (object, LV_EVENT_ALL), else it changes nothing
\* and calls nothing; the selected key always names the dispatching object.
C5_DispatchSelection ==
    [][ \A o \in Objs, ev \in EventKinds :
          DispatchBegin(o, ev) =>
            IF <<o, ev>> \in DOMAIN callback_table
            THEN pc' = "loop" /\ frame'.entry = <<o, ev>> /\ log' = <<>>
            ELSE IF <<o, LV_EVENT_ALL>> \in DOMAIN callback_table
            THEN pc' = "loop" /\ frame'.entry = <<o, LV_EVENT_ALL>> /\ log' = <<>>
            ELSE /\ pc' = "idle"
                 /\ UNCHANGED <<callback_table, subs, nextHandle, released,
                                frame, log>> ]_vars

C5_Witness ==
    /\ pc = "loop"
    /\ frame.i = 0
    /\ frame.entry = <<frame.target, LV_EVENT_ALL>>
    /\ \E k \in DOMAIN callback_table : k[1] # frame.target /\ k[2] = frame.event

\* C6: Unregister on a key with an entry removes that entry, releases each
\* handle the entry held exactly once and leaves every other entry as it was;
\* on a key without an entry it returns undefined and changes nothing.
C6_UnregisterFrame ==
    [][ \A o \in Objs, ev \in Events :
          Unregister(o, ev) =>
            /\ last'.ret = "undefined"
            /\ IF <<o, ev>> \in DOMAIN callback_table
               THEN /\ DOMAIN callback_table' = (DOMAIN callback_table) \ {<<o, ev>>}
                    /\ \A k \in DOMAIN callback_table' :
                          callback_table'[k] = callback_table[k]
                    /\ \A h \in DOMAIN released :
                          released'[h] = released[h] +
                            (IF \E s \in 1..callback_table[<<o, ev>>].callback_count :
                                    callback_table[<<o, ev>>].callbacks[s] = h
                             THEN 1 ELSE 0)
                    /\ \A s \in 1..callback_table[<<o, ev>>].callback_count :
                          released'[callback_table[<<o, ev>>].callbacks[s]] = 1
               ELSE /\ callback_table' = callback_table
                    /\ released' = released ]_vars

C6_Witness ==
    /\ last.call = "unregister"
    /\ last.ret = "undefined"
    /\ \E k \in DOMAIN subs :
          /\ k[1] = last.obj
          /\ subs[k] >= 1
          /\ k \notin DOMAIN callback_table
          /\ \E k2 \in DOMAIN callback_table : k2[1] = last.obj
    /\ Cardinality({h \in DOMAIN released : released[h] = 1}) >= 2

\* C7: lv_obj_deleted_cb for an object leaves no entry whose key names it
\* (LV_EVENT_ALL included) and leaves the entries of other objects as they
\* were; while the object has no entry a dispatch for it calls nothing, and
\* only a Register for the object gives it an entry again.
C7_DestroyedCleanup ==
    [][ /\ \A o \in Objs :
              ObjectDestroyed(o) =>
                /\ \A k \in DOMAIN callback_table' : k[1] # o
                /\ \A k \in DOMAIN callback_table :
                      k[1] # o => /\ k \in DOMAIN callback_table'
                                  /\ callback_table'[k] = callback_table[k]
                /\ DOMAIN callback_table' \subseteq DOMAIN callback_table
        /\ \A o \in Objs, ev \in EventKinds :
              ( /\ DispatchBegin(o, ev)
                /\ \A k \in DOMAIN callback_table : k[1] # o )
              => pc' = "idle" /\ log' = log
        /\ \A o \in Objs :
              ( /\ \A k \in DOMAIN callback_table : k[1] # o
                /\ \E k \in DOMAIN callback_table' : k[1] = o )
              => last' = Call("register", o, "undefined") ]_vars

C7_Witness ==
    /\ last.call = "dispatch"
    /\ pc = "idle"
    /\ \A k \in DOMAIN callback_table : k[1] # last.obj
    /\ \E k \in DOMAIN callback_table : k[1] # last.obj
    /\ \A ev \in Events : subs[<<last.obj, ev>>] >= 1

\* C8: the dispatch loop never reads an entry after it was removed and freed,
\* and never calls a callback handle that was already released.
C8_NoUseAfterFree ==
    /\ ~uaf
    /\ \A n \in 1..Len(log) : log[n].live

\* the wrapper ran the statement at position p (to its end or to a return)
Executed(p) ==
    \/ (wres.kind = "none" /\ wpc > p)
    \/ (wres.kind # "none" /\ wres.stmt >= p)

\* the wrapper returned an error from the statement at position p
FailedAt(p) == wres.kind = "error" /\ wres.stmt = p

\* C1: when a wrapper with string parameters has called the native function and
\* returned to the script runtime, every string buffer it allocated is freed,
\* for void functions and for functions that return a value.
C1_StringBuffersFreed == (wres.kind = "value" /\ called) => bufs = {}

\* the ordered ten-row decision table (first match wins) for a normalized
\* signature in argument position: the conversion it names, and for numeric
\* rows the native type of the temporary
TableExpected(type_str, info) ==
    LET base == get_typedef_base_type(InfoTypeName(info), Data)
        row(gen, ctype) == [gen |-> gen, ctype |-> ctype]
    IN  IF type_str = s_lv_obj_t_ptr THEN row("object", <<>>)
        ELSE IF type_str = s_void THEN row("void_skip", <<>>)
        ELSE IF type_str = s_void_ptr \/ type_str = s_const \o s_void_ptr
        THEN row("void_pointer", <<>>)
        ELSE IF /\ StrEndsWith(type_str, s_star)
                /\ (StrContains(type_str, s_lv_prefix) \/ StrContains(type_str, s_obj))
        THEN row("object", <<>>)
        ELSE IF type_str \in {s_char \o s_star, s_const \o s_char \o s_star,
                              s_char \o s_const \o s_star}
        THEN row("string", <<>>)
        ELSE IF type_str = s_lv_color_t THEN row("color", <<>>)
        ELSE IF type_str = s_bool \/ base = s_bool THEN row("bool_or_number", <<>>)
        ELSE IF type_str \in number_types THEN row("number", type_str)
        ELSE IF base \in number_types THEN row("number", base)
        ELSE row("generic_pointer", type_str)

\* C9: for every parameter type, the conversion generate_arg_parsing emits is
\* the one the first matching row of the decision table names; a type is
\* numeric only when it is one of the numeric primitive names.
C9_ClassificationMatchesTable ==
    \A p \in 1..Len(code) :
        code[p].op = "parse" =>
            LET parsed == parse_type(EffectiveArgs(wfunc)[code[p].index + 1].type)
            IN  [gen |-> code[p].gen, ctype |-> code[p].ctype]
                    = TableExpected(StrStrip(parsed.str), parsed.info)

\* C10, as claimed: a parameter converted as an object pointer accepts an
\* object with a numeric __ptr (the address is the tag) or a plain number (the
\* number is the address); any other value fails with an error naming the
\* argument index, and the native function is not called.
C10_ObjectArgAcceptsTagOrNumber ==
    \A p \in 1..Len(code) :
        (code[p].op = "parse" /\ code[p].gen = "object" /\ Executed(p)) =>
            LET v == jsargs[code[p].index + 1]
            IN  IF (v.t = "object" /\ v.ptr = "number") \/ v.t = "number"
                THEN ~FailedAt(p) /\ cargs[code[p].index + 1] = v.v
                ELSE FailedAt(p) /\ wres.index = code[p].index /\ ~called

\* C10, amended: a parameter converted as an object pointer accepts only an
\* object with a numeric __ptr (the address is the tag); any other value, a
\* plain number included, fails before the native call: with an error naming
\* the argument index when the value is no object, with "Invalid __ptr
\* property" when the object has no numeric __ptr.
C10_ObjectArgRequiresTaggedObject ==
    \A p \in 1..Len(code) :
        (code[p].op = "parse" /\ code[p].gen = "object" /\ Executed(p)) =>
            LET v == jsargs[code[p].index + 1]
            IN  IF v.t = "object" /\ v.ptr = "number"
                THEN ~FailedAt(p) /\ cargs[code[p].index + 1] = v.v
                ELSE /\ FailedAt(p)
                     /\ ~called
                     /\ v.t # "object" =>
                           /\ wres.msg = "Argument {index} must be an object"
                           /\ wres.index = code[p].index
                     /\ v.t = "object" => wres.msg = "Invalid __ptr property"

C10_Witness ==
    \E p \in 1..Len(code) :
        /\ code[p].op = "parse"
        /\ code[p].gen = "object"
        /\ code[p].index = 1
        /\ FailedAt(p)
        /\ jsargs[2].t = "number"
        /\ wres.index = 1
        /\ ~called

\* the statement at position p is the conversion emitted for a parameter
\* classified boolean (type bool, or an alias whose resolved base is bool)
BoolParamAt(p) == code[p].op = "parse" /\ code[p].gen = "bool_or_number"

\* C11, as claimed: a boolean parameter accepts a scripted boolean (used as
\* is) or a scripted number (nonzero is true, zero is false); every other
\* value, undefined included, fails with an error and the native function is
\* not called.
C11_BoolArgRejectsOthers ==
    \A p \in 1..Len(code) :
        (BoolParamAt(p) /\ Executed(p)) =>
            LET v == jsargs[code[p].index + 1]
            IN  IF v.t = "boolean"
                THEN ~FailedAt(p) /\ cargs[code[p].index + 1] = v.v
                ELSE IF v.t = "number"
                THEN /\ ~FailedAt(p)
                     /\ cargs[code[p].index + 1] = (IF v.v # 0 THEN 1 ELSE 0)
                ELSE FailedAt(p) /\ ~called

\* C11, amended: a boolean parameter accepts a scripted boolean (used as is),
\* a scripted number (nonzero is true, zero is false) or undefined (the
\* parameter is false); every other value fails with an error naming the
\* argument index and the native function is not called.
C11_BoolArgDefaultsUndefined ==
    \A p \in 1..Len(code) :
        (BoolParamAt(p) /\ Executed(p)) =>
            LET v == jsargs[code[p].index + 1]
            IN  IF v.t = "boolean"
                THEN ~FailedAt(p) /\ cargs[code[p].index + 1] = v.v
                ELSE IF v.t = "number"
                THEN /\ ~FailedAt(p)
                     /\ cargs[code[p].index + 1] = (IF v.v # 0 THEN 1 ELSE 0)
                ELSE IF v.t = "undefined"
                THEN ~FailedAt(p) /\ cargs[code[p].index + 1] = 0
                ELSE /\ FailedAt(p)
                     /\ wres.index = code[p].index
                     /\ ~called

\* the wrapper of a function with a boolean-alias parameter was called with
\* undefined, converted it to false and went on to call the native function
C11_Witness ==
    \E p \in 1..Len(code) :
        /\ BoolParamAt(p)
        /\ InfoTypeName(parse_type(EffectiveArgs(wfunc)[code[p].index + 1].type).info)
              = s_lv_flag_t
        /\ called
        /\ wres.kind = "value"
        /\ jsargs[code[p].index + 1].t = "undefined"
        /\ cargs = <<0>>

\* C12, as claimed: a call whose argument count differs from the parameter
\* count of the resolved function (fewer or more; zero parameters for a single
\* (void) parameter) is rejected before any parameter is converted, and the
\* native function is not called.
C12_ExactArity ==
    (wpc >= 1 /\ Len(jsargs) # Len(EffectiveArgs(wfunc))) =>
        /\ cargs = <<>>
        /\ ~called
        /\ wres.kind # "value"

\* C12, amended: a wrapper of a function with n >= 1 parameters starts with
\* the check argc < n: a call with fewer than n arguments is rejected with
\* "Insufficient arguments" before any parameter is converted and the native
\* function is not called; a call with n or more arguments passes the check
\* (extra arguments are ignored). A function with no parameters, or with a
\* single (void) parameter, has no check and accepts any number of arguments.
C12_ArityLowerBound ==
    LET n == Len(EffectiveArgs(wfunc))
    IN  wpc >= 1 =>
          /\ n >= 1 => (code[1].op = "arity" /\ code[1].index = n)
          /\ n = 0 => (\A p \in 1..Len(code) : code[p].op # "arity")
                        /\ wres.kind # "error"
          /\ Len(jsargs) < n =>
                /\ wpc = 1
                /\ cargs = <<>>
                /\ ~called
                /\ wres.kind # "none" =>
                      wres = Result("error", "Insufficient arguments", NoIndex, 1)
          /\ Len(jsargs) >= n => wres.msg # "Insufficient arguments"

\* a wrapper of a function with parameters was called with more arguments than
\* parameters, called the native function and returned its value
C12_Witness ==
    /\ Len(EffectiveArgs(wfunc)) >= 1
    /\ Len(jsargs) > Len(EffectiveArgs(wfunc))
    /\ called
    /\ wres.kind = "value"

\* the descriptor is a pointer to void: its pointee is absent or is the named
\* type void
PointsToVoid(desc) ==
    /\ desc.json_type = "pointer"
    /\ \/ desc.type.json_type = "none"
       \/ ("name" \in DOMAIN desc.type /\ desc.type.name = s_void)

\* the descriptor names an enumeration of the enums table
NamesEnum(desc, enums) ==
    /\ "name" \in DOMAIN desc
    /\ \E n \in 1..Len(enums) : enums[n].name = desc.name

\* C13: get_typedef_base_type applied to an alias whose underlying type is a
\* pointer to void returns uintptr_t, and applied to an alias whose underlying
\* type is a named enumeration returns int, for every typedefs table and enums
\* table of the bounded sets.
C13_AliasBaseType ==
    apc = "done" =>
        \A n \in 1..Len(adata.typedefs) :
            adata.typedefs[n].name = aname =>
                /\ (PointsToVoid(adata.typedefs[n].type)
                        /\ ~NamesEnum([name |-> aname], adata.enums))
                      => abase = s_uintptr_t
                /\ NamesEnum(adata.typedefs[n].type, adata.enums) => abase = s_int

\* the resolution order the claim states: a macro of that name whose
\* initializer names a function gives that function; otherwise the name among
\* the functions, then among the function-pointer typedefs; otherwise nothing
ClaimResolve(name, data) ==
    LET aliases == {n \in 1..Len(data.macros) :
                      /\ data.macros[n].name = name
                      /\ "initializer" \in DOMAIN data.macros[n]
                      /\ data.macros[n].initializer # None
                      /\ \E k \in 1..Len(data.functions) :
                            data.functions[k].name
                               = MacroTarget(data.macros[n].initializer)}
        funcs == {k \in 1..Len(data.functions) : data.functions[k].name = name}
        ptrs == {k \in 1..Len(data.function_pointers) :
                    data.function_pointers[k].name = name}
        first(S) == CHOOSE k \in S : \A o \in S : k <= o
    IN  IF aliases # {}
        THEN LET target == MacroTarget(data.macros[first(aliases)].initializer)
             IN  [kind |-> "found", name |-> target,
                  def |-> data.functions[
                              first({k \in 1..Len(data.functions) :
                                        data.functions[k].name = target})]]
        ELSE IF funcs # {}
        THEN [kind |-> "found", name |-> name, def |-> data.functions[first(funcs)]]
        ELSE IF ptrs # {}
        THEN [kind |-> "found", name |-> name,
              def |-> data.function_pointers[first(ptrs)]]
        ELSE [kind |-> "none"]

\* C14: when main ends, every export name that is not blacklisted was resolved
\* in the fixed order (macro naming a function, then functions, then
\* function-pointer typedefs): a resolved name has a wrapper under the requested
\* name with the resolved signature and an entry in the function table; a name
\* matching none has neither, and the other exports are still generated (the
\* run does not fail).
C14_ExportResolution ==
    gpc \in {"done", "no_output", "raised"} =>
        /\ gpc # "raised"
        /\ \A name \in EXPORT_FUNCTIONS \ BLACKLIST_FUNCTIONS :
              LET e == ClaimResolve(name, gdata)
                  wrappers == {k \in 1..Len(binding_code) : binding_code[k].name = name}
                  entries == {k \in 1..Len(func_list.entries) :
                                 func_list.entries[k] = name}
              IN  IF e.kind = "none"
                  THEN wrappers = {} /\ entries = {}
                  ELSE /\ entries # {}
                       /\ \E k \in wrappers :
                             /\ binding_code[k].calls = e.name
                             /\ binding_code[k].code
                                   = generate_binding_function(e.def, gdata)

\* C15: an address wrapped by the return rule and unwrapped again by the
\* generic-pointer argument rule is the original address, bit for bit, for
\* every address of the build's width (0, 1 and the largest one included).
C15_PointerRoundTrip == ppc = "done" => unwrapped = address

\* the slots of the table that hold handle h
SlotsHolding(h) ==
    {ks \in UNION {{<<k, n>> : n \in 1..MAX_CALLBACKS_PER_KEY} :
                      k \in DOMAIN callback_table} :
        callback_table[ks[1]].callbacks[ks[2]] = h}

\* C16: every handle Register acquired is held in exactly one slot of exactly
\* one entry and was never released, or is held nowhere and was released
\* exactly once; every entry's callback_count is the number of handles it
\* holds, in its first callback_count slots.
C16_HandleAccounting ==
    /\ \A h \in 1..(nextHandle - 1) :
          \/ Cardinality(SlotsHolding(h)) = 1 /\ released[h] = 0
          \/ SlotsHolding(h) = {} /\ released[h] = 1
    /\ \A k \in DOMAIN callback_table :
          {n \in 1..MAX_CALLBACKS_PER_KEY : callback_table[k].callbacks[n] # 0}
             = 1..callback_table[k].callback_count

\* a Register call failed for lack of room and released the handle it had
\* acquired, while the entries of two keys hold the handles acquired before
C16_Witness ==
    /\ last = Call("register", 1, "Too many callbacks")
    /\ released[nextHandle - 1] = 1
    /\ Cardinality(DOMAIN callback_table) = 2
    /\ \A h \in 1..(nextHandle - 2) : released[h] = 0

====
